---- MODULE Spec2Model ----
(***************************************************************************)
(* A model of Fisual: the ADSR envelope (adsr.rs), the waveform generators *)
(* (sample.rs), the mixer (mixer.rs), the audio callback and the consumer  *)
(* loop (main.rs) and the FFT helpers (fft.rs).                            *)
(*                                                                         *)
(* Numbers.  The program computes in f32/f64.  The model uses fixed point: *)
(*   - amplitudes and scalars are integers in thousandths (1.0 = 1000);    *)
(*   - times are integers in milliseconds (0.1 s = 100), and one call of   *)
(*     Adsr::next advances time_in_state by 1000 / sample_rate ms;         *)
(*   - frequencies are integers in milli-Hertz (440 Hz = 440000).          *)
(* Floating-point rounding is not modelled; products and quotients round   *)
(* toward zero on the fixed-point grid.                                    *)
(***************************************************************************)
EXTENDS Integers, Sequences, FiniteSets, TLC

VARIABLES
    op,          \* name of the last operation (envelope and mixer specifications)
    env,         \* one Adsr envelope (envelope specifications)
    envRet,      \* value returned by the last Adsr::next on env
    envCalls,    \* number of Adsr::next calls made on env
    chunks,      \* Mixer.chunks : Vec<Chunk>
    mixOut,      \* value returned by the last Mixer::next
    calls,       \* the closure invocations of the last Mixer::next, in order
    nextId,      \* number of voices added so far (names the voices)
    \* -- run(): the audio thread (the closures next_value and the callback)
    sample_clock,      \* next_value's sample_clock
    continue_samples,  \* next_value's continue_samples
    finished,          \* the callback's latch `finished`
    audio,             \* "running", or "panicked" once the callback unwound
    data,              \* the output buffer as the last callback left it
    frames,            \* number of output frames the device has asked for
    \* -- run(): the channels
    command_q,         \* commands in flight (command_tx -> command_rx)
    commands_sent,     \* number of commands sent so far
    sample_q,          \* samples in flight (sample_tx -> sample_rx)
    sample_rx,         \* TRUE while the receiving end sample_rx exists
    finished_q,        \* number of () in flight (finished_tx -> finished_rx)
    finished_sent,     \* number of () sent so far
    \* -- run(): the consumer loop on the main thread
    pc,                \* where the main thread is
    should_continue,   \* run's should_continue
    loop_state,        \* what the last Ui::update returned
    ui,                \* the Ui (ui.rs)
    stdin,             \* key bytes typed and not yet read
    typed,             \* number of keys typed so far
    \* -- fft.rs
    frame,             \* a Vec<Complex<f64>>: the buffer the functions work on
    fftPrev,           \* the buffer as it was before the last call
    fftOp,             \* the last call: its name and arguments
    fftResult,         \* "Ok" or "Err": what the last call returned
    fftOps,            \* number of calls made
    \* -- fft.rs: bitwise_reverse and bitwise_reverse_permute
    revAt,             \* the bit width: argument at, and pow2_index of the size
    revInput,          \* the index first handed to bitwise_reverse
    revResult,         \* what the last call of bitwise_reverse returned
    revCalls,          \* number of calls of bitwise_reverse, each on the last result
    revBuf,            \* the buffer handed to bitwise_reverse_permute
    revBufCalls,       \* number of calls of bitwise_reverse_permute on it
    \* -- fft.rs: a forward transform followed by an inverse one
    rtOrigin,          \* origin: a clone of the buffer before the calls
    rtBuf,             \* inp: the buffer the calls work on
    rtStep,            \* "origin", "forward" or "inverse": the last call made
    rtResults,         \* what the calls returned, in order
    \* -- ui.rs: calls made on a Ui (the Ui itself is the variable ui)
    uiAdded,           \* every entry add_sample wrote, in the order of the calls
    uiOp,              \* the last call made on the Ui
    uiFrame,           \* what the last call of frame returned
    uiDrawn,           \* what the call of draw in progress made of the Ui
    \* -- fft.rs: a RealFft and the calls made on it
    rfft,              \* the RealFft that RealFft::new returned, if it returned one
    rfftCall,          \* the last call: its arguments, its result, the RealFft before it
    rfftRuns,          \* number of calls of run made so far
    \* -- sample.rs: a waveform called on its own
    smp,               \* the Sample
    smpClock,          \* the clock of the last call of next, -1 before it
    smpRet,            \* what the last call of next returned
    \* -- adsr.rs: an envelope ticked for as long as it takes
    longEnv            \* current_state, time_in_state and the durations of the Adsr

envVars == <<env, envRet, envCalls>>
mixVars == <<chunks, mixOut, calls, nextId>>
audioVars == <<sample_clock, continue_samples, finished, audio, data, frames>>
chanVars == <<command_q, commands_sent, sample_q, sample_rx, finished_q, finished_sent>>
mainVars == <<pc, should_continue, loop_state, ui, stdin, typed>>
runVars == <<audioVars, chanVars, mainVars>>
fftVars == <<frame, fftPrev, fftOp, fftResult, fftOps>>
bitVars == <<revAt, revInput, revResult, revCalls, revBuf, revBufCalls>>
\* the state of the calls made on functions outside run()
rtVars == <<rtOrigin, rtBuf, rtStep, rtResults>>
uiVars == <<uiAdded, uiOp, uiFrame, uiDrawn>>
realVars == <<rfft, rfftCall, rfftRuns>>
smpVars == <<smp, smpClock, smpRet>>
longVars == <<longEnv>>
libVars == <<bitVars, rtVars, uiVars, realVars, smpVars, longVars>>
vars == <<op, envVars, mixVars, runVars, fftVars, libVars>>

----------------------------------------------------------------------------
(* Bounds of the model *)

\* largest stage duration (ms) drawn for an envelope in SpecAdsr
MaxDur == 2
\* largest clock value handed to Adsr::next in SpecAdsr
MaxClock == 3
\* number of Adsr::next calls made in SpecAdsr
MaxCalls == 12
\* number of Adsr::next calls made in SpecLifecycle
MaxTicks == 700
\* number of voices added to the mixer in SpecMixer
MaxAdds == 3
\* sample rate of the output device in SpecRun (Hz)
DeviceRate == 5
\* channels of the output device in SpecRun
Channels == 2
\* number of output frames the device asks for in SpecRun
MaxFrames == 3
\* number of start commands sent in SpecRun
MaxCommands == 2
\* number of keys typed in SpecRun
MaxKeys == 2
\* number of calls made on a buffer in SpecFft
MaxFftOps == 2
\* largest bit width in SpecBits
MaxBits == 4
\* number of calls of bitwise_reverse, and of bitwise_reverse_permute, in SpecBits
MaxRevCalls == 2
\* number of calls of add_sample in SpecUi
MaxUiAdds == 5
\* binary logarithm of the length fft_frame pads to (16 in ui.rs)
FftPadBits == 3
\* largest clock handed to Sample::next in SpecSample
MaxSampleClock == 8
\* number of calls of RealFft::run in SpecRealFft
MaxRealRuns == 2
\* number of calls of add_sample in SpecDraw
MaxDrawAdds == 53
\* number of keys read by update in SpecDraw
MaxDrawKeys == 2

----------------------------------------------------------------------------
(* Fixed-point helpers *)

\* 1.0 as an amplitude or scalar
AUnit == 10 * 100
\* one second in time units (ms); one Hertz in frequency units (mHz)
TUnit == 10 * 100

Abs(x) == IF x < 0 THEN -x ELSE x
Min(a, b) == IF a < b THEN a ELSE b
Max(a, b) == IF a > b THEN a ELSE b
\* quotient rounded toward zero, b > 0
QuoT(a, b) == IF a >= 0 THEN a \div b ELSE -((-a) \div b)
\* product of two thousandths
MulA(a, b) == QuoT(a * b, AUnit)

----------------------------------------------------------------------------
(* sample.rs *)

\* sin over one turn, sampled at eighths of a turn (thousandths)
SinTable == <<0, 707, 1000, 707, 0, -707, -1000, -707>>

\* the numerator of ((clock * frequency / rate) mod m) over rate * TUnit
PhaseNum(clock, frequency, rate, m) == (clock * frequency) % (m * rate * TUnit)

Sin(rate, frequency) == [kind |-> "Sin", rate |-> rate, frequency |-> frequency, duty |-> 0]
Sawtooth(rate, frequency) == [kind |-> "Sawtooth", rate |-> rate, frequency |-> frequency, duty |-> 0]
Square(duty, rate, frequency) == [kind |-> "Square", rate |-> rate, frequency |-> frequency, duty |-> duty]
Triangle(rate, frequency) == [kind |-> "Triangle", rate |-> rate, frequency |-> frequency, duty |-> 0]

\* Sample::next(&self, clock) for Square: +1 when the phase fraction is
\* strictly greater than duty, -1 otherwise
SquareNext(s, clock) ==
    IF PhaseNum(clock, s.frequency, s.rate, 1) * AUnit > s.duty * s.rate * TUnit
    THEN AUnit ELSE -AUnit

\* Sample::next(&self, clock)
SampleNext(s, clock) ==
    CASE s.kind = "Sin" ->
           SinTable[1 + (PhaseNum(clock, s.frequency, s.rate, 1) * 8) \div (s.rate * TUnit)]
      [] s.kind = "Sawtooth" ->
           -AUnit + 2 * ((PhaseNum(clock, s.frequency, s.rate, 1) * AUnit) \div (s.rate * TUnit))
      [] s.kind = "Square" -> SquareNext(s, clock)
      [] s.kind = "Triangle" ->
           LET stage == (PhaseNum(clock, s.frequency, s.rate, 4) * AUnit) \div (s.rate * TUnit)
           IN  IF stage <= 2 * AUnit
               THEN -AUnit + ((stage * 4) % (2 * AUnit))
               ELSE AUnit - ((stage * 4) % (2 * AUnit))

----------------------------------------------------------------------------
(* adsr.rs *)

AdsrState == <<"Attack", "Decay", "Sustain", "Release", "Finished">>

\* Adsr::new
AdsrNew(sample, sample_rate, attack, peak_scalar, decay, sustain, sustain_scalar, release) ==
    [current_state |-> "Attack", time_in_state |-> 0,
     sample |-> sample, sample_rate |-> sample_rate,
     attack |-> attack, peak_scalar |-> peak_scalar, decay |-> decay,
     sustain |-> sustain, sustain_scalar |-> sustain_scalar, release |-> release]

\* Adsr::step_state: the envelope after the step and the value returned
StepState(a, clock, start_scalar, end_scalar, max_time, next_state) ==
    LET sampled == SampleNext(a.sample, clock)
        t       == a.time_in_state + TUnit \div a.sample_rate
    IN  IF t > max_time
        THEN [adsr  |-> [a EXCEPT !.time_in_state = t, !.current_state = next_state],
              value |-> MulA(sampled, end_scalar)]
        ELSE LET low_sample  == MulA(start_scalar, sampled)
                 high_sample == MulA(end_scalar, sampled)
             IN  [adsr  |-> [a EXCEPT !.time_in_state = t],
                  value |-> low_sample + QuoT((high_sample - low_sample) * t, max_time)]

\* Adsr::next with a wrong successor handed to step_state for Attack
AdsrNextSkip(a, clock) ==
    CASE a.current_state = "Attack" ->
           StepState(a, clock, 0, a.peak_scalar, a.attack, "Sustain")
      [] a.current_state = "Decay" ->
           StepState(a, clock, a.peak_scalar, a.sustain_scalar, a.decay, "Sustain")
      [] a.current_state = "Sustain" ->
           StepState(a, clock, a.sustain_scalar, a.sustain_scalar, a.sustain, "Release")
      [] a.current_state = "Release" ->
           StepState(a, clock, a.sustain_scalar, 0, a.release, "Finished")
      [] a.current_state = "Finished" ->
           [adsr |-> a, value |-> 0]

\* Adsr::next
AdsrNext(a, clock) ==
    CASE a.current_state = "Attack" ->
           StepState(a, clock, 0, a.peak_scalar, a.attack, "Decay")
      [] a.current_state = "Decay" ->
           StepState(a, clock, a.peak_scalar, a.sustain_scalar, a.decay, "Sustain")
      [] a.current_state = "Sustain" ->
           StepState(a, clock, a.sustain_scalar, a.sustain_scalar, a.sustain, "Release")
      [] a.current_state = "Release" ->
           StepState(a, clock, a.sustain_scalar, 0, a.release, "Finished")
      [] a.current_state = "Finished" ->
           [adsr |-> a, value |-> 0]

\* Adsr::finished
AdsrFinished(a) ==
    CASE a.current_state \in {"Attack", "Decay", "Sustain", "Release"} -> FALSE
      [] a.current_state = "Finished" -> TRUE

----------------------------------------------------------------------------
(* mixer.rs *)

\* a clamp that forgets the lower limit
ClampUpperOnly(sampled) == Min(sampled, AUnit)

\* Clamp of Mixer::next: f32::max(f32::min(sampled, 1.0), -1.)
Clamp(sampled) == Max(Min(sampled, AUnit), -AUnit)

\* the closure's result for chunk c, r being what Adsr::next returned,
\* testing finished() before it ticks the envelope
ClosureResultStale(c, r) ==
    [chunk  |-> [c EXCEPT !.sample = r.adsr, !.samples = c.samples + 1],
     clock  |-> c.samples,
     value  |-> r.value,
     remove |-> AdsrFinished(c.sample)]

\* sample.sample.finished(), after sampled += ...; sample.samples += 1
ClosureResult(c, r) ==
    [chunk  |-> [c EXCEPT !.sample = r.adsr, !.samples = c.samples + 1],
     clock  |-> c.samples,
     value  |-> r.value,
     remove |-> AdsrFinished(r.adsr)]

\* the closure incrementing the sample count before it ticks the envelope
DrainClosureEarly(c) ==
    [ClosureResult(c, AdsrNext(c.sample, c.samples + 1)) EXCEPT !.clock = c.samples + 1]

\* The closure handed to drain_filter, applied to one chunk: the chunk after
\* the call, the clock handed to the envelope, the value added to the sum,
\* and whether the chunk is removed.
DrainClosure(c) == ClosureResult(c, AdsrNext(c.sample, c.samples))

\* Vec::drain_filter whose iterator is dropped at once: dropping it runs the
\* closure over every element, front to back, and removes those it accepts.
RECURSIVE DrainFilter(_, _, _, _)
\* one element of the drain: r is what the closure returned for Head(rest)
DrainStep(rest, kept, sampled, done, r) ==
    DrainFilter(Tail(rest),
                IF r.remove THEN kept ELSE Append(kept, r.chunk),
                sampled + r.value,
                Append(done, [id |-> Head(rest).id, clock |-> r.clock,
                              value |-> r.value, remove |-> r.remove,
                              samples |-> r.chunk.samples]))

DrainFilter(rest, kept, sampled, done) ==
    IF rest = <<>>
    THEN [chunks |-> kept, sampled |-> sampled, calls |-> done]
    ELSE DrainStep(rest, kept, sampled, done, DrainClosure(Head(rest)))

\* Mixer::add_sample
MixerAddSample(cs, sample, id) == Append(cs, [sample |-> sample, samples |-> 0, id |-> id])

\* Mixer::next
MixerResult(r) == [chunks |-> r.chunks, value |-> Clamp(r.sampled), calls |-> r.calls]
MixerNext(cs) == MixerResult(DrainFilter(cs, <<>>, 0, <<>>))

----------------------------------------------------------------------------
(* Envelope specifications *)

Waveforms ==
    { Square(250, 1000, 500 * TUnit), Sawtooth(1000, 250 * TUnit) }

\* Ui::new
UiNew(sample_window, seconds_to_record, sample_rate) ==
    [sample_window |-> sample_window,
     samples |-> [i \in 1..(sample_rate * seconds_to_record) |-> <<0, 0>>],
     total_samples |-> 0,
     sample_rate |-> sample_rate]

\* Mixer::new
MixerInit ==
    /\ chunks = <<>>
    /\ mixOut = 0
    /\ calls = <<>>
    /\ nextId = 0

\* run() up to the consumer loop; u is the Ui it builds
RunInitWith(u) ==
    /\ sample_clock = 0
    /\ continue_samples = 0
    /\ finished = FALSE
    /\ audio = "running"
    /\ data = <<>>
    /\ frames = 0
    /\ command_q = <<>>
    /\ commands_sent = 0
    /\ sample_q = <<>>
    /\ sample_rx = TRUE
    /\ finished_q = 0
    /\ finished_sent = 0
    /\ pc = "drain"
    /\ should_continue = TRUE
    /\ loop_state = "Continue"
    /\ ui = u
    /\ stdin = <<>>
    /\ typed = 0

\* Ui::new(1500, 1, sample_rate as usize, command_tx)
RunInit == RunInitWith(UiNew(1500, 1, DeviceRate))

\* no call made yet on the buffer f
FftInit(f) ==
    /\ frame = f
    /\ fftPrev = f
    /\ fftOp = [name |-> "none", inverse |-> FALSE, new_len |-> 0]
    /\ fftResult = "Ok"
    /\ fftOps = 0

\* no call made yet of bitwise_reverse on index i at width at, nor of
\* bitwise_reverse_permute on the buffer buf
BitsInit(at, i, buf) ==
    /\ revAt = at
    /\ revInput = i
    /\ revResult = i
    /\ revCalls = 0
    /\ revBuf = buf
    /\ revBufCalls = 0

\* no transform made yet on the buffer x
RoundTripInit(x) ==
    /\ rtOrigin = x
    /\ rtBuf = x
    /\ rtStep = "origin"
    /\ rtResults = <<>>

\* what frame returns before it has sample_window entries
NoFrame == [first_time |-> 0, last_time |-> 0, frame |-> <<>>, panicked |-> FALSE]

\* a widget draw hands to draw_widget
None == [some |-> FALSE, data |-> <<>>]
Some(points) == [some |-> TRUE, data |-> points]

\* nothing drawn
NotDrawn ==
    [panicked |-> FALSE, frame |-> <<>>, fft_frame |-> <<>>,
     freq_widget |-> None, fft_widget |-> None]

\* no call made yet on the Ui
UiCallsInit ==
    /\ uiAdded = <<>>
    /\ uiOp = "new"
    /\ uiFrame = NoFrame
    /\ uiDrawn = NotDrawn

\* no RealFft made
NoRealFft == [buffer |-> <<>>, result_buffer |-> <<>>, sample_rate |-> 0]

\* RealFft::new(sample_size, ..) returned new, and nothing was called since
RealFftInit(r, sample_size, new) ==
    /\ rfft = r
    /\ rfftCall = [op |-> "new", sample_size |-> sample_size, data |-> <<>>,
                   result |-> new, before |-> r]
    /\ rfftRuns = 0

\* the waveform w, not called yet
SampleInit(w) ==
    /\ smp = w
    /\ smpClock = -1
    /\ smpRet = 0

\* Adsr::new as to the fields that decide the stage: the durations and
\* time_in_state are counted in units of 1 / sample_rate
LongAdsrNew(attack, decay, sustain, release) ==
    [current_state |-> "Attack", time_in_state |-> 0,
     attack |-> attack, decay |-> decay, sustain |-> sustain, release |-> release]

\* the functions outside run() other than those of group g are not called
LibIdle(g) ==
    /\ (g = "bits" \/ BitsInit(0, 0, <<>>))
    /\ (g = "roundtrip" \/ RoundTripInit(<<>>))
    /\ (g = "ui" \/ UiCallsInit)
    /\ (g = "real" \/ RealFftInit(NoRealFft, 0, "none"))
    /\ (g = "sample" \/ SampleInit(Square(0, 1000, 0)))
    /\ (g = "long" \/ longEnv = LongAdsrNew(0, 0, 0, 0))

LibInit == LibIdle("none")

\* run(), the envelope and the mixer as they are built, before any call
BaseInitWith(u) ==
    /\ op = "init"
    /\ envRet = 0
    /\ envCalls = 0
    /\ MixerInit
    /\ RunInitWith(u)

BaseInit == BaseInitWith(UiNew(1500, 1, DeviceRate))

EnvInit(e) ==
    /\ op = "init"
    /\ env = e
    /\ envRet = 0
    /\ envCalls = 0
    /\ MixerInit
    /\ RunInit
    /\ FftInit(<<>>)
    /\ LibInit

\* SpecAdsr: any envelope, ticked with any clock
InitAdsr ==
    \E s \in Waveforms, a, d, su, r \in 0..MaxDur, p \in {700, 1000} :
        EnvInit(AdsrNew(s, 1000, a, p, d, su, 500, r))

EnvNext(clock) ==
    \E r \in {AdsrNext(env, clock)} :
        /\ op' = "adsr_next"
        /\ env' = r.adsr
        /\ envRet' = r.value
        /\ envCalls' = envCalls + 1
        /\ UNCHANGED <<mixVars, runVars, fftVars, libVars>>

AdsrCall ==
    /\ envCalls < MaxCalls
    /\ \E clock \in 0..MaxClock : EnvNext(clock)

NextAdsr == AdsrCall

SpecAdsr == InitAdsr /\ [][NextAdsr]_vars

\* SpecLifecycle: the envelope of the lifecycle test, ticked as the mixer
\* ticks a voice (clock = number of earlier calls)
LifecycleEnvelope ==
    AdsrNew(Square(500, 1000, 250 * TUnit), 1000, 100, 1000, 100, 200, 500, 200)

InitLifecycle == EnvInit(LifecycleEnvelope)

LifecycleTick ==
    /\ envCalls < MaxTicks
    /\ EnvNext(envCalls)

NextLifecycle == LifecycleTick

SpecLifecycle == InitLifecycle /\ [][NextLifecycle]_vars

----------------------------------------------------------------------------
(* Mixer specification *)

VoiceConfigs ==
    { AdsrNew(Square(250, 1000, 500 * TUnit), 1000, 2, 1000, 1, 2, 500, 1),
      AdsrNew(Square(250, 1000, 500 * TUnit), 1000, 0, 700, 0, 0, 600, 0),
      AdsrNew(Sawtooth(1000, 250 * TUnit), 1000, 1, 700, 3, 4, 600, 2) }

InitMixer == EnvInit(LifecycleEnvelope)

MixAdd ==
    /\ nextId < MaxAdds
    /\ \E a \in VoiceConfigs :
          chunks' = MixerAddSample(chunks, a, nextId)
    /\ nextId' = nextId + 1
    /\ op' = "add_sample"
    /\ UNCHANGED <<mixOut, calls, envVars, runVars, fftVars, libVars>>

MixNext ==
    \E r \in {MixerNext(chunks)} :
        /\ chunks' = r.chunks
        /\ mixOut' = r.value
        /\ calls' = r.calls
        /\ op' = "mixer_next"
        /\ UNCHANGED <<nextId, envVars, runVars, fftVars, libVars>>

NextMixer == MixAdd \/ MixNext

SpecMixer == InitMixer /\ [][NextMixer]_vars

----------------------------------------------------------------------------
(* ui.rs *)

\* Ui::add_sample; a timestamp total_samples / sample_rate is kept as its
\* numerator total_samples
UiAddSample(u, sample) ==
    LET capacity == Len(u.samples)
    IN  [u EXCEPT !.samples[(u.total_samples % capacity) + 1] = <<u.total_samples, sample>>,
                  !.total_samples = u.total_samples + 1]

\* frame's self.samples[(first + i) % self.sample_rate]
UiFrameEntry(u, first, i) == u.samples[((first + i) % u.sample_rate) + 1]

\* frame once it has sample_window entries: first is
\* (self.total_samples - sample_window) % self.sample_rate
UiFrameFrom(u, sample_window, first) ==
    [first_time |-> UiFrameEntry(u, first, 0)[1],
     last_time  |-> UiFrameEntry(u, first, sample_window - 1)[1],
     frame      |-> [i \in 1..sample_window |-> UiFrameEntry(u, first, i - 1)],
     panicked   |-> FALSE]

\* Ui::frame.  Every index it makes is below sample_rate, which is within
\* the buffer when seconds_to_record is at least 1; frame[0] fails for a
\* window of 0.
UiFrame(u, sample_window) ==
    IF u.total_samples < sample_window THEN NoFrame
    ELSE IF sample_window = 0 \/ u.sample_rate > Len(u.samples)
    THEN [NoFrame EXCEPT !.panicked = TRUE]
    ELSE UiFrameFrom(u, sample_window, (u.total_samples - sample_window) % u.sample_rate)

\* Ui::update: reads the typed keys until none is left or 'q' is read
RECURSIVE UiUpdate(_, _)
UiUpdate(keys, u) ==
    IF keys = <<>>
    THEN [state |-> "Continue", stdin |-> keys, ui |-> u]
    ELSE CASE Head(keys) = "+" ->
                UiUpdate(Tail(keys), [u EXCEPT !.sample_window = u.sample_window + 50])
           [] Head(keys) = "-" ->
                UiUpdate(Tail(keys),
                         IF u.sample_window > 50
                         THEN [u EXCEPT !.sample_window = u.sample_window - 50]
                         ELSE u)
           [] Head(keys) = "q" ->
                [state |-> "Exit", stdin |-> Tail(keys), ui |-> u]
           [] OTHER -> UiUpdate(Tail(keys), u)

----------------------------------------------------------------------------
(* main.rs: run::<f32>, for which cpal::Sample::from::<f32> is the identity *)

Notes == {"C", "B", "A", "D"}
\* the notes the command input adapter is made to start
StartNotes == {"C", "B"}
Keys == {"+", "-", "q", "x"}
\* what the device may have left in the buffer it hands to the callback
DeviceFill == {0, 250}
\* the numbers of frames of the buffers the device hands to the callback
BufFrames == {1, 2}

\* Sample::middle_c, middle_b, middle_a; Note::D is started with middle_a
NoteSample(note, sample_rate) ==
    CASE note = "C" -> Sin(sample_rate, 261630)
      [] note = "B" -> Sin(sample_rate, 493883)
      [] note = "A" -> Sin(sample_rate, 440000)
      [] note = "D" -> Sin(sample_rate, 440000)

\* the envelope next_value builds for Command::Start(note)
NoteVoice(note, sample_rate) ==
    AdsrNew(NoteSample(note, sample_rate), sample_rate, 400, 700, 300, 600, 600, 500)

\* the state the closure next_value reads and writes
ClosureState ==
    [sample_clock |-> sample_clock, continue_samples |-> continue_samples,
     chunks |-> chunks, nextId |-> nextId, mixOut |-> mixOut, calls |-> calls,
     command_q |-> command_q, sample_q |-> sample_q,
     panicked |-> FALSE, value |-> 0]

\* next_value after command_rx.try_recv(): m is what sample.next() returned
NextValueMixed(st, started, m) ==
    [sample_clock     |-> (st.sample_clock + 1) % DeviceRate,
     continue_samples |-> st.continue_samples - 1,
     chunks    |-> m.chunks,
     nextId    |-> IF started THEN st.nextId + 1 ELSE st.nextId,
     mixOut    |-> m.value,
     calls     |-> m.calls,
     command_q |-> IF started THEN Tail(st.command_q) ELSE st.command_q,
     sample_q  |-> IF sample_rx THEN Append(st.sample_q, m.value) ELSE st.sample_q,
     panicked  |-> ~sample_rx,
     value     |-> m.value]

\* next_value polling the command channel only after it ticked the mixer
NextValueLate(st) ==
    IF st.command_q # <<>>
    THEN NextValueMixed(st, TRUE,
             [MixerNext(st.chunks) EXCEPT
                 !.chunks = MixerAddSample(MixerNext(st.chunks).chunks,
                                           NoteVoice(Head(st.command_q), DeviceRate),
                                           st.nextId)])
    ELSE NextValueMixed(st, FALSE, MixerNext(st.chunks))

\* the closure next_value: one produced sample.  sample_tx.send(next).unwrap()
\* panics when the receiving end is gone.
NextValue(st) ==
    IF st.command_q # <<>>
    THEN NextValueMixed(st, TRUE,
             MixerNext(MixerAddSample(st.chunks, NoteVoice(Head(st.command_q), DeviceRate),
                                      st.nextId)))
    ELSE NextValueMixed(st, FALSE, MixerNext(st.chunks))

\* write_data: frames k..n of the buffer out, each filled with one value of
\* next_value; a panic of next_value ends it
RECURSIVE WriteData(_, _, _, _)
\* frame k: st1 is the closure's state after next_value
WriteFrame(st1, k, n, out) ==
    IF st1.panicked
    THEN [st |-> st1, out |-> out]
    ELSE WriteData(st1, k + 1, n,
                   [i \in 1..Len(out) |->
                      IF (i - 1) \div Channels = k - 1 THEN st1.value ELSE out[i]])

WriteData(st, k, n, out) ==
    IF k > n
    THEN [st |-> st, out |-> out]
    ELSE WriteFrame(NextValue(st), k, n, out)

\* the output stream callback, called by the device with a buffer of n frames.
\* run() itself never waits for the device thread; whether the backend still
\* calls back while or after the Stream is dropped is left open, so a call
\* after run() has dropped the channel ends is allowed.
AudioCallback ==
    /\ audio = "running"
    /\ \E n \in BufFrames, fill \in DeviceFill :
         /\ frames + n <= MaxFrames
         /\ frames' = frames + n
         \* if let Ok(()) = finished_rx.try_recv() { finished = true; }
         /\ finished' = (finished \/ finished_q > 0)
         /\ finished_q' = IF finished_q > 0 THEN finished_q - 1 ELSE finished_q
         \* if !finished { write_data(data, channels, &mut next_value) }
         /\ \E r \in { IF finished \/ finished_q > 0
                        THEN [st |-> ClosureState, out |-> [i \in 1..(n * Channels) |-> fill]]
                        ELSE WriteData(ClosureState, 1, n, [i \in 1..(n * Channels) |-> fill]) } :
                /\ data' = r.out
                /\ audio' = IF r.st.panicked THEN "panicked" ELSE "running"
                /\ sample_clock' = r.st.sample_clock
                /\ continue_samples' = r.st.continue_samples
                /\ chunks' = r.st.chunks
                /\ nextId' = r.st.nextId
                /\ mixOut' = r.st.mixOut
                /\ calls' = r.st.calls
                /\ command_q' = r.st.command_q
                /\ sample_q' = r.st.sample_q
    /\ UNCHANGED <<op, fftVars, libVars, envVars, commands_sent, sample_rx, finished_sent, mainVars>>

\* the match with its arms exchanged
LoopContinuesSwapped(state) ==
    CASE state = "Continue" -> FALSE
      [] state = "Exit" -> TRUE

\* the match on what Ui::update returned
LoopContinues(state) ==
    CASE state = "Continue" -> TRUE
      [] state = "Exit" -> FALSE

\* for sample in sample_rx.try_iter().take(sample_rate as usize * 4)
RECURSIVE AddSamples(_, _)
AddSamples(u, samples) ==
    IF samples = <<>> THEN u
    ELSE AddSamples(UiAddSample(u, Head(samples)), Tail(samples))

ConsumerDrain ==
    /\ pc = "drain"
    /\ \E k \in {Min(Len(sample_q), DeviceRate * 4)} :
           /\ ui' = AddSamples(ui, SubSeq(sample_q, 1, k))
           /\ sample_q' = SubSeq(sample_q, k + 1, Len(sample_q))
    /\ pc' = "update"
    /\ UNCHANGED <<op, fftVars, libVars, envVars, mixVars, audioVars, command_q, commands_sent, sample_rx,
                   finished_q, finished_sent, should_continue, loop_state, stdin,
                   typed>>

\* what leaving run() drops: the Stream, then the channel ends
RunDrops == sample_rx' = FALSE

\* should_continue = match ui.update().unwrap() { ... };
\* if !should_continue { finished_tx.send(())?; }
ConsumerUpdate ==
    /\ pc = "update"
    /\ \E r \in {UiUpdate(stdin, ui)} :
           /\ ui' = r.ui
           /\ stdin' = r.stdin
           /\ loop_state' = r.state
           /\ should_continue' = LoopContinues(r.state)
           /\ IF LoopContinues(r.state)
              THEN /\ pc' = "draw"
                   /\ UNCHANGED <<finished_q, finished_sent, sample_rx>>
              ELSE IF audio = "running"
                   THEN \* the send succeeds: finished_rx exists
                        /\ finished_q' = finished_q + 1
                        /\ finished_sent' = finished_sent + 1
                        /\ pc' = "draw"
                        /\ UNCHANGED sample_rx
                   ELSE \* the send fails and ? returns the error
                        /\ pc' = "returned"
                        /\ RunDrops
                        /\ UNCHANGED <<finished_q, finished_sent>>
    /\ UNCHANGED <<op, fftVars, libVars, envVars, mixVars, audioVars, command_q, commands_sent, sample_q,
                   typed>>

\* ui.draw().unwrap(); thread::sleep(..); then the test of
\* while should_continue, and Ok(()) when it fails
ConsumerDraw ==
    /\ pc = "draw"
    /\ IF should_continue
       THEN pc' = "drain" /\ UNCHANGED sample_rx
       ELSE pc' = "returned" /\ RunDrops
    /\ UNCHANGED <<op, fftVars, libVars, envVars, mixVars, audioVars, command_q, commands_sent, sample_q,
                   finished_q, finished_sent, should_continue, loop_state, ui, stdin,
                   typed>>

\* ui.draw().unwrap() with the terminal failing: the main thread unwinds
ConsumerDrawFail ==
    /\ pc = "draw"
    /\ pc' = "panicked"
    /\ RunDrops
    /\ UNCHANGED <<op, fftVars, libVars, envVars, mixVars, audioVars, command_q, commands_sent, sample_q,
                   finished_q, finished_sent, should_continue, loop_state, ui, stdin,
                   typed>>

\* the user typing a key; a key typed since the last Ui::update is taken at
\* the point where the next one polls stdin
KeyPress ==
    /\ pc = "update"
    /\ typed < MaxKeys
    /\ \E k \in Keys : stdin' = Append(stdin, k)
    /\ typed' = typed + 1
    /\ UNCHANGED <<op, fftVars, libVars, envVars, mixVars, audioVars, chanVars, pc, should_continue,
                   loop_state, ui>>

\* the command input adapter sending Command::Start(note) on command_tx,
\* which run() hands to the Ui: a send is made by the main thread, from the
\* Ui's handling of input
EnqueueStart ==
    /\ pc = "update"
    /\ commands_sent < MaxCommands
    /\ \E note \in StartNotes : command_q' = Append(command_q, note)
    /\ commands_sent' = commands_sent + 1
    /\ UNCHANGED <<op, fftVars, libVars, envVars, mixVars, audioVars, sample_q, sample_rx, finished_q,
                   finished_sent, mainVars>>

InitRun == EnvInit(LifecycleEnvelope)

NextRun ==
    \/ AudioCallback
    \/ ConsumerDrain
    \/ ConsumerUpdate
    \/ ConsumerDraw
    \/ ConsumerDrawFail
    \/ KeyPress
    \/ EnqueueStart

SpecRun == InitRun /\ [][NextRun]_vars

\* usize::trailing_zeros, which is 64 for 0
RECURSIVE TrailingZeros(_)
TrailingZeros(size) ==
    IF size = 0 THEN 64
    ELSE IF size % 2 = 1 THEN 0 ELSE 1 + TrailingZeros(size \div 2)

----------------------------------------------------------------------------
(* f64: IEEE 754 binary64, the type the program instantiates Complex<T> and
   do_fft<T> with.  A value is sign * mant * 2^exp with mant odd, or zero;
   mant is a natural number written in digits of Base, lowest first.
   Results are rounded to 53 significant bits, ties to even.  Exponents are
   not limited: no value used here comes near the overflow or the subnormal
   range. *)

Base == 2 ^ 14
DigitBits == 14
MantissaBits == 53

\* natural numbers in digits of Base, lowest digit first, no zero on top
RECURSIVE BigNorm(_)
BigNorm(a) ==
    IF a = <<>> THEN <<>>
    ELSE IF a[Len(a)] = 0 THEN BigNorm(SubSeq(a, 1, Len(a) - 1)) ELSE a

RECURSIVE BigFromInt(_)
BigFromInt(n) == IF n = 0 THEN <<>> ELSE <<n % Base>> \o BigFromInt(n \div Base)

Digit(a, i) == IF i >= 1 /\ i <= Len(a) THEN a[i] ELSE 0

RECURSIVE BigAddFrom(_, _, _, _)
BigAddFrom(a, b, i, carry) ==
    IF i > Len(a) /\ i > Len(b)
    THEN IF carry = 0 THEN <<>> ELSE <<carry>>
    ELSE <<(Digit(a, i) + Digit(b, i) + carry) % Base>>
         \o BigAddFrom(a, b, i + 1, (Digit(a, i) + Digit(b, i) + carry) \div Base)

BigAdd(a, b) == BigAddFrom(a, b, 1, 0)

\* a - b for a >= b
RECURSIVE BigSubFrom(_, _, _, _)
BigSubFrom(a, b, i, borrow) ==
    IF i > Len(a) THEN <<>>
    ELSE <<(Digit(a, i) - Digit(b, i) - borrow + Base) % Base>>
         \o BigSubFrom(a, b, i + 1,
                       IF Digit(a, i) - Digit(b, i) - borrow < 0 THEN 1 ELSE 0)

BigSub(a, b) == BigNorm(BigSubFrom(a, b, 1, 0))

\* -1, 0 or 1 as a is below, equal to or above b
RECURSIVE BigCmpFrom(_, _, _)
BigCmpFrom(a, b, i) ==
    IF i = 0 THEN 0
    ELSE IF a[i] < b[i] THEN -1
    ELSE IF a[i] > b[i] THEN 1
    ELSE BigCmpFrom(a, b, i - 1)

BigCmp(a, b) ==
    IF Len(a) < Len(b) THEN -1
    ELSE IF Len(a) > Len(b) THEN 1
    ELSE BigCmpFrom(a, b, Len(a))

\* a * d for one digit d
RECURSIVE BigMulDigitFrom(_, _, _, _)
BigMulDigitFrom(a, d, i, carry) ==
    IF i > Len(a)
    THEN IF carry = 0 THEN <<>> ELSE <<carry>>
    ELSE <<(a[i] * d + carry) % Base>>
         \o BigMulDigitFrom(a, d, i + 1, (a[i] * d + carry) \div Base)

BigMulDigit(a, d) == IF d = 0 THEN <<>> ELSE BigMulDigitFrom(a, d, 1, 0)

\* a * Base^k
BigShiftDigits(a, k) == IF a = <<>> THEN <<>> ELSE [i \in 1..k |-> 0] \o a

RECURSIVE BigMulFrom(_, _, _)
BigMulFrom(a, b, j) ==
    IF j > Len(b) THEN <<>>
    ELSE BigAdd(BigShiftDigits(BigMulDigit(a, b[j]), j - 1), BigMulFrom(a, b, j + 1))

BigMul(a, b) == BigMulFrom(a, b, 1)

\* a * 2^k and a \div 2^k
BigShl(a, k) == BigShiftDigits(BigMulDigit(a, 2 ^ (k % DigitBits)), k \div DigitBits)

BigShr(a, k) ==
    LET d == k \div DigitBits
        r == k % DigitBits
    IN  BigNorm([i \in 1..(Len(a) - d) |->
                    (Digit(a, i + d) \div (2 ^ r))
                    + (Digit(a, i + d + 1) % (2 ^ r)) * (2 ^ (DigitBits - r))])

\* a % 2^k
BigLowBits(a, k) == BigSub(a, BigShl(BigShr(a, k), k))

RECURSIVE BitLen(_)
BitLen(n) == IF n = 0 THEN 0 ELSE 1 + BitLen(n \div 2)

BigBitLen(a) == IF a = <<>> THEN 0 ELSE DigitBits * (Len(a) - 1) + BitLen(a[Len(a)])

\* the number of zero bits below the lowest one bit of a # 0
RECURSIVE BigTrailingZeros(_, _)
BigTrailingZeros(a, i) ==
    IF a[i] = 0 THEN DigitBits + BigTrailingZeros(a, i + 1)
    ELSE TrailingZeros(a[i])

F64Zero == [sign |-> 1, mant |-> <<>>, exp |-> 0]

\* sign * mant * 2^exp with the zero bits taken out of mant
F64Of(sign, mant, exp) ==
    IF mant = <<>> THEN F64Zero
    ELSE [sign |-> sign,
          mant |-> BigShr(mant, BigTrailingZeros(mant, 1)),
          exp  |-> exp + BigTrailingZeros(mant, 1)]

\* mant with its lowest shift bits rounded away, ties to even
RoundedShr(mant, shift) ==
    LET q    == BigShr(mant, shift)
        c    == BigCmp(BigLowBits(mant, shift), BigShl(<<1>>, shift - 1))
    IN  IF c > 0 \/ (c = 0 /\ Digit(q, 1) % 2 = 1) THEN BigAdd(q, <<1>>) ELSE q

F64Round(sign, mant, exp) ==
    IF BigBitLen(mant) <= MantissaBits THEN F64Of(sign, mant, exp)
    ELSE F64Of(sign, RoundedShr(mant, BigBitLen(mant) - MantissaBits),
               exp + BigBitLen(mant) - MantissaBits)

F64FromInt(n) == F64Of(IF n < 0 THEN -1 ELSE 1, BigFromInt(Abs(n)), 0)

F64Neg(a) == IF a.mant = <<>> THEN a ELSE [a EXCEPT !.sign = -a.sign]

F64Mul(a, b) ==
    IF a.mant = <<>> \/ b.mant = <<>> THEN F64Zero
    ELSE F64Round(a.sign * b.sign, BigMul(a.mant, b.mant), a.exp + b.exp)

\* the sum of two values brought to the exponent e
F64AddAt(a, b, ma, mb, e) ==
    IF a.sign = b.sign THEN F64Round(a.sign, BigAdd(ma, mb), e)
    ELSE IF BigCmp(ma, mb) = 0 THEN F64Zero
    ELSE IF BigCmp(ma, mb) > 0 THEN F64Round(a.sign, BigSub(ma, mb), e)
    ELSE F64Round(b.sign, BigSub(mb, ma), e)

F64Add(a, b) ==
    IF a.mant = <<>> THEN b
    ELSE IF b.mant = <<>> THEN a
    ELSE F64AddAt(a, b, BigShl(a.mant, a.exp - Min(a.exp, b.exp)),
                  BigShl(b.mant, b.exp - Min(a.exp, b.exp)), Min(a.exp, b.exp))

F64Sub(a, b) == F64Add(a, F64Neg(b))

\* a / d for d a power of two, the only divisors do_fft makes: exact
F64Div(a, d) ==
    CASE a.mant = <<>> /\ d.mant # <<>> -> F64Zero
      [] a.mant # <<>> /\ d.mant = <<1>> ->
            [sign |-> a.sign * d.sign, mant |-> a.mant, exp |-> a.exp - d.exp]

\* a < b, a <= b
F64Lt(a, b) == F64Sub(a, b).sign = -1
F64Le(a, b) == F64Sub(b, a).sign = 1

----------------------------------------------------------------------------
(* complex.rs: Complex<f64> *)

Complex(real, imaginary) == [real |-> real, imaginary |-> imaginary]
ComplexReal(real) == Complex(real, F64Zero)

ComplexAdd(a, rhs) ==
    Complex(F64Add(a.real, rhs.real), F64Add(a.imaginary, rhs.imaginary))
ComplexSub(a, rhs) ==
    Complex(F64Sub(a.real, rhs.real), F64Sub(a.imaginary, rhs.imaginary))
ComplexMul(a, rhs) ==
    Complex(F64Sub(F64Mul(a.real, rhs.real), F64Mul(a.imaginary, rhs.imaginary)),
            F64Add(F64Mul(a.imaginary, rhs.real), F64Mul(a.real, rhs.imaginary)))
ComplexDivBy(a, rhs, divisor) ==
    Complex(F64Div(F64Add(F64Mul(a.real, rhs.real), F64Mul(a.imaginary, rhs.imaginary)),
                   divisor),
            F64Div(F64Sub(F64Mul(a.imaginary, rhs.real), F64Mul(a.real, rhs.imaginary)),
                   divisor))
ComplexDiv(a, rhs) ==
    ComplexDivBy(a, rhs, F64Add(F64Mul(rhs.real, rhs.real),
                                F64Mul(rhs.imaginary, rhs.imaginary)))

\* Complex::magnitude, which ui.rs and fft.rs call: its value is kept as
\* the number it is taken of
Magnitude(a) == a

----------------------------------------------------------------------------
(* fft.rs *)

\* x & y on usize
RECURSIVE BitAnd(_, _)
BitAnd(x, y) ==
    IF x = 0 \/ y = 0 THEN 0
    ELSE (x % 2) * (y % 2) + 2 * BitAnd(x \div 2, y \div 2)

\* the test without its case for zero and without x > 0, on a subtraction
\* that wraps: 0 & usize::MAX is 0
is_power_of_two_wrapping(x) == BitAnd(x, x - 1) = 0

is_power_of_two(x) ==
    IF x = 0 THEN FALSE
    ELSE (x > 0) /\ (BitAnd(x, x - 1) = 0)

pow2_index(size) == TrailingZeros(size)

\* the loop of bitwise_reverse from bit i on
RECURSIVE BitwiseReverseLoop(_, _, _, _)
BitwiseReverseLoop(input, at, i, result) ==
    IF i >= at THEN result
    ELSE BitwiseReverseLoop(input, at, i + 1,
             IF (input \div (2 ^ i)) % 2 # 0
             THEN result + 2 ^ (at - 1 - i)
             ELSE result)

\* bitwise_reverse whose loop stops one bit early
bitwise_reverse_narrow(input, at) == BitwiseReverseLoop(input, at - 1, 0, 0)

bitwise_reverse(input, at) == BitwiseReverseLoop(input, at, 0, 0)

\* input.swap(i, ri), on a buffer whose element i is input[i + 1]
Swap(input, i, ri) ==
    [k \in 1..Len(input) |->
        IF k = i + 1 THEN input[ri + 1]
        ELSE IF k = ri + 1 THEN input[i + 1] ELSE input[k]]

\* the loop of bitwise_reverse_permute from element i on
RECURSIVE PermuteLoop(_, _, _, _)
PermuteLoop(input, size_bit, size, i) ==
    IF i >= size THEN input
    ELSE PermuteLoop(IF i < bitwise_reverse(i, size_bit)
                     THEN Swap(input, i, bitwise_reverse(i, size_bit))
                     ELSE input,
                     size_bit, size, i + 1)

bitwise_reverse_permute(input, size) == PermuteLoop(input, pow2_index(size), size, 0)

\* angle.cos() and angle.sin() for angle = 2. * (PI / len), as libm
\* returns them in f64: cos(PI/2) and sin(PI) are not 0
AngleCos(len) ==
    CASE len = 2 -> F64Of(-1, <<1>>, 0)
      [] len = 4 -> F64Of(1, <<7175, 3153, 8803, 1129>>, -106)
      [] len = 8 -> F64Of(1, <<15309, 6652, 2534, 1448>>, -53)
      [] len = 16 -> F64Of(1, <<1699, 7781, 862, 946>>, -52)
      [] len = 32 -> F64Of(1, <<13771, 13309, 8855, 125>>, -49)
      [] len = 64 -> F64Of(1, <<4755, 1954, 1133, 1019>>, -52)
AngleSin(len) ==
    CASE len = 2 -> F64Of(1, <<7175, 3153, 8803, 1129>>, -105)
      [] len = 4 -> F64Of(1, <<1>>, 0)
      [] len = 8 -> F64Of(1, <<3827, 9855, 633, 362>>, -51)
      [] len = 16 -> F64Of(1, <<10595, 6842, 7722, 1567>>, -54)
      [] len = 32 -> F64Of(1, <<4869, 14547, 1473, 799>>, -54)
      [] len = 64 -> F64Of(1, <<11531, 15401, 7834, 401>>, -54)

\* wlen: the angle is negated for the inverse transform
Wlen(len, inverse) ==
    Complex(AngleCos(len), IF inverse THEN F64Neg(AngleSin(len)) ELSE AngleSin(len))

\* one pass of the inner loop: current and scalar are input[i + j] and
\* input[i + j + half_len] * w
Butterfly(input, i, j, half_len, current, scalar) ==
    [input EXCEPT ![i + j + 1] = ComplexAdd(current, scalar),
                  ![i + j + half_len + 1] = ComplexSub(current, scalar)]

\* for j in 0..half_len { ...; w *= wlen }, from j on
RECURSIVE InnerLoop(_, _, _, _, _, _)
InnerLoop(input, i, j, half_len, w, wlen) ==
    IF j >= half_len THEN input
    ELSE InnerLoop(Butterfly(input, i, j, half_len, input[i + j + 1],
                             ComplexMul(input[i + j + half_len + 1], w)),
                   i, j + 1, half_len, ComplexMul(w, wlen), wlen)

\* for i in (0..max_len).step_by(len), from i on; w starts at 1 in each block
RECURSIVE BlockLoop(_, _, _, _)
BlockLoop(input, i, len, wlen) ==
    IF i >= Len(input) THEN input
    ELSE BlockLoop(InnerLoop(input, i, 0, len \div 2, ComplexReal(F64FromInt(1)), wlen),
                   i + len, len, wlen)

\* while len <= max_len { ...; len = len << 1 }
RECURSIVE Stages(_, _, _)
Stages(input, len, inverse) ==
    IF len > Len(input) THEN input
    ELSE Stages(BlockLoop(input, 0, len, Wlen(len, inverse)), len * 2, inverse)

\* the division made by the forward transform as well
ScaledAlways(input, inverse) ==
    [k \in 1..Len(input) |->
        ComplexDiv(input[k], ComplexReal(F64FromInt(Len(input))))]

\* if inverse { input[i] /= Complex::real(max_len) }
Scaled(input, inverse) ==
    IF inverse
    THEN [k \in 1..Len(input) |->
             ComplexDiv(input[k], ComplexReal(F64FromInt(Len(input))))]
    ELSE input

do_fft(input, inverse) ==
    IF ~is_power_of_two(Len(input))
    THEN [result |-> "Err", input |-> input]
    ELSE [result |-> "Ok",
          input  |-> Scaled(Stages(bitwise_reverse_permute(input, Len(input)), 2, inverse),
                            inverse)]

\* new_entries pushes of Complex::real(0.)
Zeros(new_entries) == [k \in 1..new_entries |-> ComplexReal(F64Zero)]

\* round_to with the test of Ui::fft_round_to, which refuses an equal length
round_to_strict(vec, new_len) ==
    IF Len(vec) >= new_len
    THEN [result |-> "Err", frame |-> <<>>]
    ELSE [result |-> "Ok", frame |-> vec \o Zeros(new_len - Len(vec))]

\* round_to without its error arm: a longer frame comes back as it is
round_to_no_error(vec, new_len) ==
    IF Len(vec) >= new_len
    THEN [result |-> "Ok", frame |-> vec]
    ELSE [result |-> "Ok", frame |-> vec \o Zeros(new_len - Len(vec))]

\* the vector is moved into round_to: on Err it is dropped
round_to(vec, new_len) ==
    IF Len(vec) = new_len THEN [result |-> "Ok", frame |-> vec]
    ELSE IF Len(vec) > new_len THEN [result |-> "Err", frame |-> <<>>]
    ELSE [result |-> "Ok", frame |-> vec \o Zeros(new_len - Len(vec))]

\* usize::next_power_of_two: the smallest power of two >= n, 1 for 0
RECURSIVE NextPowerOfTwoFrom(_, _)
NextPowerOfTwoFrom(n, p) == IF p >= n THEN p ELSE NextPowerOfTwoFrom(n, 2 * p)
next_power_of_two(n) == NextPowerOfTwoFrom(n, 1)

round_to_nearest_pow2(vec) == round_to(vec, next_power_of_two(Len(vec)))

\* the lengths of the buffers and the values of new_len in SpecFft: every
\* small one, and some larger ones
FrameLens == (0..5) \cup {8, 20}
NewLens == (0..5) \cup {8, 9}

\* the buffers the functions are called on: real ones, as the tests build
\* them, and ones with imaginary parts
InputFrame(len, b) ==
    [i \in 1..len |->
        IF b = 1 THEN ComplexReal(F64FromInt(((i - 1) % 4) + 1))
        ELSE Complex(F64FromInt((i - 1) % 4), F64FromInt(((i - 1) % 3) - 1))]

InitFft ==
    /\ op = "init"
    /\ env = LifecycleEnvelope
    /\ envRet = 0
    /\ envCalls = 0
    /\ MixerInit
    /\ RunInit
    /\ \E len \in FrameLens, b \in {0, 1} : FftInit(InputFrame(len, b))
    /\ LibInit

\* what a call records
FftCalled(name, inverse, new_len, result) ==
    /\ fftOps < MaxFftOps
    /\ fftOps' = fftOps + 1
    /\ fftPrev' = frame
    /\ fftOp' = [name |-> name, inverse |-> inverse, new_len |-> new_len]
    /\ fftResult' = result
    /\ UNCHANGED <<op, envVars, mixVars, runVars, libVars>>

DoFft ==
    \E inverse \in BOOLEAN :
      \E r \in {do_fft(frame, inverse)} :
         /\ frame' = r.input
         /\ FftCalled("do_fft", inverse, 0, r.result)

RoundTo ==
    \E new_len \in NewLens :
      \E r \in {round_to(frame, new_len)} :
         /\ frame' = r.frame
         /\ FftCalled("round_to", FALSE, new_len, r.result)

RoundToNearestPow2 ==
    \E r \in {round_to_nearest_pow2(frame)} :
       /\ frame' = r.frame
       /\ FftCalled("round_to_nearest_pow2", FALSE, 0, r.result)

NextFft == DoFft \/ RoundTo \/ RoundToNearestPow2

SpecFft == InitFft /\ [][NextFft]_vars

\* a buffer of len elements that are all different
IndexFrame(len) == [i \in 1..len |-> ComplexReal(F64FromInt(i - 1))]

InitBits ==
    /\ BaseInit
    /\ env = LifecycleEnvelope
    /\ FftInit(<<>>)
    /\ LibIdle("bits")
    /\ \E at \in 0..MaxBits : \E i \in 0..(2 ^ at - 1) :
          BitsInit(at, i, IndexFrame(2 ^ at))

\* bitwise_reverse called on what the call before it returned
BitwiseReverse ==
    /\ revCalls < MaxRevCalls
    /\ revResult' = bitwise_reverse(revResult, revAt)
    /\ revCalls' = revCalls + 1
    /\ UNCHANGED <<op, envVars, mixVars, runVars, fftVars, revAt, revInput, revBuf,
                   revBufCalls, rtVars, uiVars, realVars, smpVars, longVars>>

\* bitwise_reverse_permute(input, input.len()), as do_fft calls it
BitwiseReversePermute ==
    /\ revBufCalls < MaxRevCalls
    /\ is_power_of_two(Len(revBuf))
    /\ revBuf' = bitwise_reverse_permute(revBuf, Len(revBuf))
    /\ revBufCalls' = revBufCalls + 1
    /\ UNCHANGED <<op, envVars, mixVars, runVars, fftVars, revAt, revInput, revResult,
                   revCalls, rtVars, uiVars, realVars, smpVars, longVars>>

NextBits == BitwiseReverse \/ BitwiseReversePermute

SpecBits == InitBits /\ [][NextBits]_vars

\* x * 2^scale, which is exact
F64Scaled(x, scale) == IF x.mant = <<>> THEN x ELSE [x EXCEPT !.exp = x.exp + scale]

\* the buffers of the round trip: "vec" is fft_test::vec, "real" and
\* "complex" are the buffers of SpecFft, "mixed" holds one large element
\* followed by ones; every element is multiplied by 2^scale
RoundTripKinds == {"vec", "real", "complex", "mixed"}
RoundTripLens == {1, 2, 4, 8}
RoundTripScales == {0, 8, 50}

RoundTripElement(kind, i) ==
    CASE kind = "vec" -> ComplexReal(F64FromInt((i - 1) + 20))
      [] kind = "real" -> InputFrame(i, 1)[i]
      [] kind = "complex" -> InputFrame(i, 0)[i]
      [] kind = "mixed" -> ComplexReal(IF i = 1 THEN F64Of(1, <<1>>, 60) ELSE F64FromInt(1))

RoundTripFrame(kind, len, scale) ==
    [i \in 1..len |->
        Complex(F64Scaled(RoundTripElement(kind, i).real, scale),
                F64Scaled(RoundTripElement(kind, i).imaginary, scale))]

InitRoundTrip ==
    /\ BaseInit
    /\ env = LifecycleEnvelope
    /\ FftInit(<<>>)
    /\ LibIdle("roundtrip")
    /\ \E kind \in RoundTripKinds, len \in RoundTripLens, scale \in RoundTripScales :
          RoundTripInit(RoundTripFrame(kind, len, scale))

\* what a call of do_fft on inp records
RoundTripCalled(r) ==
    /\ rtBuf' = r.input
    /\ rtResults' = Append(rtResults, r.result)
    /\ UNCHANGED <<op, envVars, mixVars, runVars, fftVars, bitVars, uiVars, realVars, smpVars, longVars,
                 rtOrigin>>

\* do_fft(&mut inp, false), the first call of fft_test::inverse_inverses
RoundTripForward ==
    /\ rtStep = "origin"
    /\ rtStep' = "forward"
    /\ \E r \in {do_fft(rtBuf, FALSE)} : RoundTripCalled(r)

\* do_fft(&mut inp, true), its second call
RoundTripInverse ==
    /\ rtStep = "forward"
    /\ rtStep' = "inverse"
    /\ \E r \in {do_fft(rtBuf, TRUE)} : RoundTripCalled(r)

NextRoundTrip == RoundTripForward \/ RoundTripInverse

SpecRoundTrip == InitRoundTrip /\ [][NextRoundTrip]_vars

----------------------------------------------------------------------------
(* fft.rs: RealFft<f64> *)

\* RealFft::new; vec![x; n] has capacity n
RealFftNew(sample_size, sample_rate) ==
    IF is_power_of_two(sample_size)
    THEN [result |-> "Ok",
          fft |-> [buffer |-> Zeros(sample_size),
                   result_buffer |-> [i \in 1..(sample_size \div 2) |-> <<F64Zero, F64Zero>>],
                   sample_rate |-> sample_rate]]
    ELSE [result |-> "Err", fft |-> NoRealFft]

\* RealFft::sample_window
RealSampleWindow(f) == Len(f.buffer)

\* the buffer prepare_buffer leaves: the data as reals, then zeros
PreparedBuffer(f, d) ==
    [i \in 1..RealSampleWindow(f) |->
        IF i <= Len(d) THEN ComplexReal(d[i]) ELSE ComplexReal(F64Zero)]

\* prepare_buffer refusing only data longer than the buffer
prepare_buffer_longer(f, d) ==
    IF Len(d) > RealSampleWindow(f)
    THEN [result |-> "Err", fft |-> f]
    ELSE [result |-> "Ok", fft |-> [f EXCEPT !.buffer = PreparedBuffer(f, d)]]

\* RealFft::prepare_buffer
prepare_buffer(f, d) ==
    IF Len(d) >= RealSampleWindow(f)
    THEN [result |-> "Err", fft |-> f]
    ELSE [result |-> "Ok", fft |-> [f EXCEPT !.buffer = PreparedBuffer(f, d)]]

\* RealFft::prepare_real_result_from_fft_buffer: the frequency
\* sample_rate * (sample_index / datapoints) is kept as sample_index, the
\* amplitude as the magnitude and the input_size it is divided by
prepare_real_result_from_fft_buffer(f, input_size) ==
    LET datapoints == RealSampleWindow(f)
        half_datapoints == datapoints \div 2
    IN  [f EXCEPT !.result_buffer =
            [k \in 1..half_datapoints |->
                <<k - 1,
                  <<Magnitude(ComplexAdd(f.buffer[k], f.buffer[datapoints - k + 1])),
                    input_size>>>>]]

\* run after do_fft(&mut self.buffer, false).expect(..)
RealFftTransformed(f, r, input_size) ==
    IF r.result = "Err"
    THEN [result |-> "panicked", fft |-> f]
    ELSE [result |-> "Ok",
          fft |-> prepare_real_result_from_fft_buffer([f EXCEPT !.buffer = r.input],
                                                      input_size)]

\* run after self.prepare_buffer(data)?
RealFftPrepared(p, input_size) ==
    IF p.result = "Err"
    THEN p
    ELSE RealFftTransformed(p.fft, do_fft(p.fft.buffer, FALSE), input_size)

\* RealFft::run
RealFftRun(f, d) == RealFftPrepared(prepare_buffer(f, d), Len(d))

\* the sample sizes handed to RealFft::new, and the data handed to run
RealSizes == (0..6) \cup {8}
RealDataLens == (0..5) \cup {7, 8}
RealData(len, b) == [i \in 1..len |-> F64FromInt((i * b) % 3)]

InitRealFft ==
    /\ env = LifecycleEnvelope
    /\ FftInit(<<>>)
    /\ BaseInit
    /\ LibIdle("real")
    /\ \E sample_size \in RealSizes :
          \E r \in {RealFftNew(sample_size, 1)} :
             RealFftInit(r.fft, sample_size, r.result)

\* real_fft.run(data), on a RealFft that new returned
RealRun ==
    /\ rfftCall.result \in {"Ok", "Err"}
    /\ rfftCall.op = "new" => rfftCall.result = "Ok"
    /\ rfftRuns < MaxRealRuns
    /\ \E len \in RealDataLens, b \in {1, 2} :
          \E r \in {RealFftRun(rfft, RealData(len, b))} :
             /\ rfft' = r.fft
             /\ rfftCall' = [op |-> "run", sample_size |-> rfftCall.sample_size,
                             data |-> RealData(len, b), result |-> r.result,
                             before |-> rfft]
    /\ rfftRuns' = rfftRuns + 1
    /\ UNCHANGED <<op, envVars, mixVars, runVars, fftVars, bitVars, rtVars, uiVars, smpVars,
                 longVars>>

NextRealFft == RealRun

SpecRealFft == InitRealFft /\ [][NextRealFft]_vars

----------------------------------------------------------------------------
(* ui.rs: the redraw path *)

\* fft_frame pads to 2^16 entries; the model pads to 2 ^ FftPadBits
FftPadLen == 2 ^ FftPadBits

\* Ui::fft_round_to
UiFftRoundTo(f, new_len) ==
    IF Len(f) >= new_len
    THEN [panicked |-> TRUE, frame |-> <<>>]
    ELSE [panicked |-> FALSE, frame |-> f \o Zeros(new_len - Len(f))]

\* fft_frame's map of the window to Complex::real(x)
UiComplexFrame(f) == [i \in 1..Len(f) |-> ComplexReal(F64FromInt(f[i][2]))]

\* (first_half_freq.magnitude() + second_half_freq.magnitude())
\*    / self.sample_window, kept as the two bins it is computed from
Magnitudes(first_half_freq, second_half_freq) ==
    <<Magnitude(first_half_freq), Magnitude(second_half_freq)>>

\* the frequency samples of a transformed buffer: entry sample_index pairs
\* bin sample_index of the first half with the bin of the reversed second
\* half; the frequency sample_rate * (sample_index / datapoints) is kept as
\* sample_index
FrequencySamples(buf) ==
    LET datapoints == Len(buf)
        half_datapoints == datapoints \div 2
    IN  [k \in 1..half_datapoints |->
            <<k - 1, Magnitudes(buf[k], buf[datapoints - k + 1])>>]

\* the zero point chained before the frequency samples
ZeroZero == <<0, <<>>>>

\* fft_frame after do_fft(...).expect(...)
UiFftTransformed(r) ==
    IF r.result = "Err"
    THEN [panicked |-> TRUE, frame |-> <<>>]
    ELSE [panicked |-> FALSE, frame |-> <<ZeroZero>> \o FrequencySamples(r.input)]

\* fft_frame after fft_round_to(frame, 65536)
UiFftPadded(p) ==
    IF p.panicked
    THEN [panicked |-> TRUE, frame |-> <<>>]
    ELSE UiFftTransformed(do_fft(p.frame, FALSE))

\* fft_frame after self.frame(sample_window)
UiFftOfFrame(fr) ==
    IF fr.panicked
    THEN [panicked |-> TRUE, frame |-> <<>>]
    ELSE UiFftPadded(UiFftRoundTo(UiComplexFrame(fr.frame), FftPadLen))

\* Ui::fft_frame
UiFftFrame(u, sample_window) == UiFftOfFrame(UiFrame(u, sample_window))

\* draw's freq_widget, the waveform chart
FreqWidget(f) == IF Len(f) = 0 THEN None ELSE Some(f)

\* a spectrum chart made whenever fft_frame has entries
FftWidgetOwnLength(f, fft_frame) == IF Len(fft_frame) = 0 THEN None ELSE Some(fft_frame)

\* draw's fft_widget, the spectrum chart: it tests frame.len(), too
FftWidget(f, fft_frame) == IF Len(f) = 0 THEN None ELSE Some(fft_frame)

\* draw with the results of self.frame and self.fft_frame
UiDrawOf(fr, fft) ==
    IF fr.panicked \/ fft.panicked
    THEN [NotDrawn EXCEPT !.panicked = TRUE]
    ELSE [panicked |-> FALSE, frame |-> fr.frame, fft_frame |-> fft.frame,
          freq_widget |-> FreqWidget(fr.frame),
          fft_widget |-> FftWidget(fr.frame, fft.frame)]

\* Ui::draw, on a terminal that accepts the widgets
UiDraw(u) == UiDrawOf(UiFrame(u, u.sample_window), UiFftFrame(u, u.sample_window))

\* the Uis of SpecUi: Ui::new(sample_window, seconds_to_record, sample_rate)
\* with a window no larger than the buffer
UiRates == {1, 2, 3}
UiSeconds == {1, 2}
\* the amplitudes handed to add_sample
UiSamples == {0, 500}

InitUi ==
    /\ env = LifecycleEnvelope
    /\ FftInit(<<>>)
    /\ LibIdle("ui")
    /\ UiCallsInit
    /\ \E sample_rate \in UiRates, seconds_to_record \in UiSeconds :
         \E sample_window \in 1..(sample_rate * seconds_to_record) :
            BaseInitWith(UiNew(sample_window, seconds_to_record, sample_rate))

\* what the calls on the Ui of SpecUi leave alone
UiCallFrame ==
    UNCHANGED <<op, envVars, mixVars, audioVars, chanVars, pc, should_continue, loop_state,
                stdin, typed, fftVars, bitVars, rtVars, realVars, smpVars, longVars>>

\* ui.add_sample(sample)
UiAddSampleCall ==
    /\ Len(uiAdded) < MaxUiAdds
    /\ \E sample \in UiSamples :
          /\ ui' = UiAddSample(ui, sample)
          /\ uiAdded' = Append(uiAdded, <<ui.total_samples, sample>>)
    /\ uiOp' = "add_sample"
    /\ UNCHANGED <<uiFrame, uiDrawn>>
    /\ UiCallFrame

\* self.frame(self.sample_window), as draw calls it
UiFrameCall ==
    /\ uiOp # "frame"
    /\ uiOp' = "frame"
    /\ uiFrame' = UiFrame(ui, ui.sample_window)
    /\ UNCHANGED <<ui, uiAdded, uiDrawn>>
    /\ UiCallFrame

NextUi == UiAddSampleCall \/ UiFrameCall

SpecUi == InitUi /\ [][NextUi]_vars

\* the Ui of SpecDraw: Ui::new(sample_window, 1, sample_rate), as run builds it
DrawWindows == {2, 3}
DrawRates == {2}
\* the keys update reads in SpecDraw
DrawKeys == {"+", "-"}

InitDraw ==
    /\ env = LifecycleEnvelope
    /\ FftInit(<<>>)
    /\ LibIdle("ui")
    /\ UiCallsInit
    /\ \E sample_window \in DrawWindows, sample_rate \in DrawRates :
          BaseInitWith(UiNew(sample_window, 1, sample_rate))

\* what the calls on the Ui of SpecDraw leave alone
DrawCallFrame ==
    UNCHANGED <<op, envVars, mixVars, audioVars, chanVars, pc, should_continue, loop_state,
                stdin, fftVars, bitVars, rtVars, realVars, smpVars, longVars,
                uiAdded, uiFrame>>

\* ui.add_sample(sample), as the consumer loop calls it for a received sample
DrawAddSample ==
    /\ ~uiDrawn.panicked
    /\ ui.total_samples < MaxDrawAdds
    /\ \E sample \in UiSamples : ui' = UiAddSample(ui, sample)
    /\ uiOp' = "add_sample"
    /\ uiDrawn' = NotDrawn
    /\ UNCHANGED typed
    /\ DrawCallFrame

\* ui.update() reading one key, '+' or '-'
DrawUpdate ==
    /\ ~uiDrawn.panicked
    /\ typed < MaxDrawKeys
    /\ \E key \in DrawKeys : ui' = UiUpdate(<<key>>, ui).ui
    /\ typed' = typed + 1
    /\ uiOp' = "update"
    /\ uiDrawn' = NotDrawn
    /\ DrawCallFrame

\* ui.draw(): a panic on the way ends the thread
DrawRedraw ==
    /\ ~uiDrawn.panicked
    /\ uiOp # "draw"
    /\ uiDrawn' = UiDraw(ui)
    /\ uiOp' = "draw"
    /\ UNCHANGED <<ui, typed>>
    /\ DrawCallFrame

NextDraw == DrawAddSample \/ DrawUpdate \/ DrawRedraw

SpecDraw == InitDraw /\ [][NextDraw]_vars

----------------------------------------------------------------------------
(* Waveform specification *)

\* the square waves of SpecSample: duty from 0 to 1, rate 1000, frequencies
\* whose phase fractions are exact in f32
SquareDuties == {0, 250, 500, 750, 1000}
SquareFrequencies == {125 * TUnit, 250 * TUnit, 500 * TUnit}

InitSample ==
    /\ env = LifecycleEnvelope
    /\ FftInit(<<>>)
    /\ BaseInit
    /\ LibIdle("sample")
    /\ \E duty \in SquareDuties, frequency \in SquareFrequencies :
          SampleInit(Square(duty, 1000, frequency))

\* sample.next(clock)
SampleCall ==
    /\ \E clock \in 0..MaxSampleClock :
          /\ smpClock' = clock
          /\ smpRet' = SampleNext(smp, clock)
    /\ UNCHANGED <<smp, op, envVars, mixVars, runVars, fftVars, bitVars, rtVars, uiVars,
                   realVars, longVars>>

NextSample == SampleCall

SpecSample == InitSample /\ [][NextSample]_vars

----------------------------------------------------------------------------
(* adsr.rs: the stage of an envelope over any number of calls

   time_in_state is an f32.  For a sample_rate that is a power of two,
   1. / sample_rate is exact and every value time_in_state takes is a
   multiple of it; counted in that unit, time_in_state += 1. / sample_rate
   is the integer sum rounded to the 24 bits of an f32 significand, ties to
   even.  Durations are taken on the same grid (at 32768 Hz, 16384 units
   are 0.5 s and 19660800 units are 600 s). *)

\* bits of the significand of an f32
SingleBits == 24

\* the f32 nearest to n, ties to even, for n below 2^25
F32Round(n) ==
    IF n < 2 ^ SingleBits THEN n
    ELSE 2 * ((n \div 2) + (IF n % 2 = 1 /\ (n \div 2) % 2 = 1 THEN 1 ELSE 0))

\* Adsr::step_state as to the state it leaves
LongStepState(a, max_time, next_state) ==
    LET t == F32Round(a.time_in_state + 1)
    IN  IF t > max_time
        THEN [a EXCEPT !.time_in_state = t, !.current_state = next_state]
        ELSE [a EXCEPT !.time_in_state = t]

\* the duration Adsr::next hands to step_state
LongMaxTime(a) ==
    CASE a.current_state = "Attack" -> a.attack
      [] a.current_state = "Decay" -> a.decay
      [] a.current_state = "Sustain" -> a.sustain
      [] a.current_state = "Release" -> a.release
      [] a.current_state = "Finished" -> 0

\* Adsr::next as to the state it leaves
LongAdsrNext(a) ==
    CASE a.current_state = "Attack" -> LongStepState(a, a.attack, "Decay")
      [] a.current_state = "Decay" -> LongStepState(a, a.decay, "Sustain")
      [] a.current_state = "Sustain" -> LongStepState(a, a.sustain, "Release")
      [] a.current_state = "Release" -> LongStepState(a, a.release, "Finished")
      [] a.current_state = "Finished" -> a

\* the number of calls from a on that all keep the stage and whose sums are
\* exact: those that leave time_in_state at most max_time and at most 2^24
QuietCalls(a) ==
    IF a.current_state = "Finished" THEN 0
    ELSE Max(0, Min(LongMaxTime(a), 2 ^ SingleBits) - a.time_in_state)

\* the envelopes of SpecLong
LongAttacks == {0, 1, 16384}
LongDecays == {0, 2, 8192}
LongSustains == {0, 3, 32768, 19660800}
LongReleases == {0, 16384, 32768}

InitLong ==
    /\ env = LifecycleEnvelope
    /\ FftInit(<<>>)
    /\ BaseInit
    /\ LibIdle("long")
    /\ \E attack \in LongAttacks, decay \in LongDecays,
          sustain \in LongSustains, release \in LongReleases :
          longEnv = LongAdsrNew(attack, decay, sustain, release)

\* what the calls on the envelope of SpecLong leave alone
LongFrame ==
    UNCHANGED <<op, envVars, mixVars, runVars, fftVars, bitVars, rtVars, uiVars, realVars,
                smpVars>>

\* one call of next, where the call changes the stage or the sum is rounded
LongNext ==
    /\ QuietCalls(longEnv) < 2
    /\ longEnv' = LongAdsrNext(longEnv)
    /\ LongFrame

\* QuietCalls(longEnv) calls of next in a row: each adds one unit exactly
\* and keeps the stage
LongNextRun ==
    /\ QuietCalls(longEnv) >= 2
    /\ longEnv' = [longEnv EXCEPT !.time_in_state = @ + QuietCalls(longEnv)]
    /\ LongFrame

NextLong == LongNext \/ LongNextRun

SpecLong == InitLong /\ [][NextLong]_vars

\* the mixer ticks every voice it holds on every call
SpecLongFair == SpecLong /\ WF_vars(LongNext) /\ WF_vars(LongNextRun)

----------------------------------------------------------------------------
(* Claims about the envelope *)

Rank(state) == CHOOSE i \in 1..5 : AdsrState[i] = state

\* C1: a call of Adsr::next keeps the stage or moves it to its immediate
\* successor in Attack, Decay, Sustain, Release, Finished; a call made in
\* Finished returns 0 and leaves the envelope Finished; finished() is true
\* exactly in Finished.
C1_StageForward ==
    [][ op' = "adsr_next" =>
          /\ Rank(env'.current_state) - Rank(env.current_state) \in {0, 1}
          /\ (env.current_state = "Finished" =>
                 envRet' = 0 /\ env'.current_state = "Finished")
          /\ (AdsrFinished(env') <=> env'.current_state = "Finished")
          /\ (AdsrFinished(env) <=> env.current_state = "Finished") ]_vars

\* an envelope that stayed in Attack and in Sustain for more than one call,
\* went through every stage and was called again after it finished
C1_Witness ==
    /\ env.current_state = "Finished"
    /\ env.attack >= 1 /\ env.sustain > env.attack
    /\ envCalls >= env.sustain + 5

\* C2: the lifecycle envelope is in Attack for about its first 100 calls,
\* in Decay for about the next 100, flat at 0.5 in Sustain for about 200,
\* in Release for about 200, and is finished, returning 0, only after about
\* 600 calls (each boundary taken within 4 calls).
StageDuring(lo, hi, stage) ==
    (envCalls >= lo /\ envCalls <= hi) => env.current_state = stage
C2_Lifecycle ==
    /\ StageDuring(0, 96, "Attack")
    /\ StageDuring(104, 196, "Decay")
    /\ StageDuring(204, 396, "Sustain")
    /\ StageDuring(404, 596, "Release")
    /\ (envCalls >= 204 /\ envCalls <= 396 => Abs(envRet) = 500)
    /\ (AdsrFinished(env) => envCalls >= 596)
    /\ (envCalls >= 604 => AdsrFinished(env) /\ envRet = 0)

\* the end scalar Adsr::next hands to step_state for a stage
EndScalar(a) ==
    CASE a.current_state = "Attack" -> a.peak_scalar
      [] a.current_state = "Decay" -> a.sustain_scalar
      [] a.current_state = "Sustain" -> a.sustain_scalar
      [] a.current_state = "Release" -> 0

\* C17: a call of Adsr::next that moves the envelope to its next stage
\* leaves time_in_state at 0 and returns the waveform sample multiplied by
\* the end scalar of the stage it completed.
C17_ResetOnTransition ==
    [][ (op' = "adsr_next" /\ env'.current_state # env.current_state) =>
          /\ env'.time_in_state = 0
          /\ \E clock \in 0..MaxClock :
                envRet' = MulA(SampleNext(env.sample, clock), EndScalar(env)) ]_vars

----------------------------------------------------------------------------
(* Claims about the mixer *)

Ids(cs) == { cs[i].id : i \in 1..Len(cs) }
RECURSIVE SumValues(_)
SumValues(cl) == IF cl = <<>> THEN 0 ELSE Head(cl).value + SumValues(Tail(cl))
RECURSIVE SumNext(_)
SumNext(cs) ==
    IF cs = <<>> THEN 0
    ELSE AdsrNext(Head(cs).sample, Head(cs).samples).value + SumNext(Tail(cs))
FinishesNow(c) == AdsrFinished(AdsrNext(c.sample, c.samples).adsr)

\* C3: a voice whose envelope becomes finished during a Mixer::next call is
\* ticked in that call exactly once, its value is part of the sum of that
\* call, and it is gone from the collection when the call returns; the
\* collection never holds a voice whose envelope is finished.
C3_Eviction ==
    [][ op' = "mixer_next" =>
          /\ \A i \in 1..Len(chunks) :
                FinishesNow(chunks[i]) =>
                  /\ Cardinality({ k \in 1..Len(calls') : calls'[k].id = chunks[i].id }) = 1
                  /\ \E k \in 1..Len(calls') :
                        /\ calls'[k].id = chunks[i].id
                        /\ calls'[k].value = AdsrNext(chunks[i].sample, chunks[i].samples).value
                  /\ chunks[i].id \notin Ids(chunks')
          /\ mixOut' = Clamp(SumValues(calls'))
          /\ \A k \in 1..Len(calls') : calls'[k].id \in Ids(chunks)
          /\ \A i \in 1..Len(chunks') : ~AdsrFinished(chunks'[i].sample) ]_vars

\* a Mixer::next call that removed one voice with a non-zero last value and
\* kept another
C3_Witness ==
    /\ op = "mixer_next"
    /\ Len(chunks) >= 1
    /\ \E k \in 1..Len(calls) : calls[k].remove /\ calls[k].id \notin Ids(chunks)
    /\ \E k \in 1..Len(calls) : ~calls[k].remove /\ calls[k].value # 0

\* C4: Mixer::next returns clamp(sum, -1, 1) of the values Adsr::next
\* returns for the voices held at the start of the call, so its output is
\* within [-1, 1] and is 0 for a mixer holding no voice.
C4_Clipping ==
    [][ op' = "mixer_next" =>
          /\ mixOut' = Max(-AUnit, Min(AUnit, SumNext(chunks)))
          /\ mixOut' >= -AUnit /\ mixOut' <= AUnit
          /\ (chunks = <<>> => mixOut' = 0) ]_vars

\* a call whose sum of voice values is beyond the limit and is clipped
C4_Witness ==
    /\ op = "mixer_next"
    /\ SumValues(calls) < -AUnit
    /\ mixOut = -AUnit

----------------------------------------------------------------------------
(* Claims about run() *)

\* an invocation of the output callback
CallbackRan == frames' # frames

\* C6: an invocation of the audio callback that has not seen the finished
\* signal and whose sample channel has lost its receiving end still mixes a
\* sample, writes it to the output frames and leaves the callback running
\* for later invocations: the failed send is swallowed.
C6_SendFailureSwallowed ==
    [][ (CallbackRan /\ ~sample_rx /\ ~finished') =>
          /\ audio' = "running"
          /\ sample_clock' # sample_clock
          /\ \A i \in 1..Len(data') :
                 (i - 1) \div Channels = (Len(data') \div Channels) - 1 =>
                     data'[i] = mixOut' ]_vars

\* C7: an invocation of the audio callback that has observed the finished
\* signal, in this invocation or an earlier one, does not tick the
\* mixer, forwards no sample, consumes no command, hands back a buffer of
\* zero-valued samples and leaves the stream running; the latch is never
\* reset.
C7_SilenceAfterFinished ==
    [][ /\ (finished => finished')
        /\ (CallbackRan /\ finished') =>
              /\ chunks' = chunks /\ calls' = calls /\ sample_clock' = sample_clock
              /\ sample_q' = sample_q
              /\ command_q' = command_q
              /\ audio' = "running"
              /\ \A i \in 1..Len(data') : data'[i] = 0 ]_vars

\* C8: the consumer loop sends the finished signal once, on the Exit that
\* Ui::update returns for the key q, and before run returns; no signal is sent
\* while update returns Continue; after the signal the loop finishes its
\* iteration and starts no other.
C8_ShutdownOnce ==
    /\ finished_sent <= 1
    /\ (loop_state = "Exit" => finished_sent = 1)
    /\ (loop_state = "Continue" => finished_sent = 0)
    /\ (finished_sent = 1 =>
           ~should_continue /\ pc \in {"draw", "returned", "panicked"})
    /\ (pc = "returned" => finished_sent = 1)
    /\ (finished => finished_sent = 1)

\* run has returned after a quit that followed a full iteration in which the
\* window was widened, and the callback has observed the signal
C8_Witness ==
    /\ pc = "returned"
    /\ finished_sent = 1
    /\ finished
    /\ ui.sample_window = 1550

\* the chunks the mixer holds when next_value ticks it for the first frame
\* of a callback
FirstFrameChunks ==
    IF command_q # <<>>
    THEN MixerAddSample(chunks, NoteVoice(Head(command_q), DeviceRate), nextId)
    ELSE chunks

\* C18: a callback of n frames that has not seen the finished signal and
\* whose sample channel is open takes, frame by frame, at most one pending
\* start command, in the order the commands were sent, and none when none is
\* pending; the voice of a command taken for a frame is ticked in that same
\* frame with clock 0; the mixer is ticked once per frame, the one value it
\* returns is appended to the sample channel and written to every channel of
\* the frame.
C18_OneCommandPerFrame ==
    [][ (CallbackRan /\ ~finished' /\ audio' = "running") =>
          LET n == frames' - frames
              k == Min(Len(command_q), n)
              sent == Len(sample_q)
          IN  /\ command_q' = SubSeq(command_q, k + 1, Len(command_q))
              /\ nextId' = nextId + k
              /\ \A j \in 1..k : \E i \in 1..Len(chunks') :
                    /\ chunks'[i].id = nextId + j - 1
                    /\ chunks'[i].sample.sample = NoteSample(command_q[j], DeviceRate)
                    /\ chunks'[i].samples = n - j + 1
              /\ \A i \in 1..Len(chunks') :
                    \/ chunks'[i].id >= nextId
                    \/ \E h \in 1..Len(chunks) :
                          /\ chunks[h].id = chunks'[i].id
                          /\ chunks'[i].samples = chunks[h].samples + n
              /\ sample_clock' = (sample_clock + n) % DeviceRate
              /\ Len(sample_q') = sent + n
              /\ SubSeq(sample_q', 1, sent) = sample_q
              /\ sample_q'[sent + 1] = MixerNext(FirstFrameChunks).value
              /\ sample_q'[sent + n] = mixOut'
              /\ Len(data') = n * Channels
              /\ \A i \in 1..Len(data') :
                    data'[i] = sample_q'[sent + ((i - 1) \div Channels) + 1] ]_vars

\* two commands queued at once were taken by the two frames of one callback:
\* the voices they started, of different notes, were ticked twice and once
C18_Witness ==
    /\ audio = "running"
    /\ frames = 2
    /\ Len(data) = 2 * Channels
    /\ commands_sent = 2
    /\ command_q = <<>>
    /\ Len(chunks) = 2
    /\ chunks[1].samples = 2
    /\ chunks[2].samples = 1
    /\ chunks[1].sample.sample # chunks[2].sample.sample

----------------------------------------------------------------------------
(* Claims about the transform's helpers *)

PowersOfTwo == {1, 2, 4, 8, 16, 32, 64}

\* C9: do_fft on a buffer whose length is not a power of two, 0 and 20
\* included, returns an error and leaves every element as it was; on a
\* buffer whose length is a power of two, 1 included, it returns Ok.
C9_SizeGuard ==
    fftOp.name = "do_fft" =>
        IF Len(fftPrev) \in PowersOfTwo
        THEN fftResult = "Ok" /\ Len(frame) = Len(fftPrev)
        ELSE fftResult = "Err" /\ frame = fftPrev

\* do_fft refused a buffer of 20 elements and left it as it was
C9_Witness ==
    /\ fftOp.name = "do_fft"
    /\ Len(fftPrev) = 20
    /\ fftResult = "Err"
    /\ frame = fftPrev
    /\ frame[20].real # F64Zero

\* new is old followed by zeros up to n elements
IsPadded(old, new, n) ==
    /\ Len(new) = n
    /\ \A i \in 1..Len(old) : new[i] = old[i]
    /\ \A i \in (Len(old) + 1)..n : new[i] = ComplexReal(F64Zero)

\* C10: round_to on a frame no longer than new_len returns Ok with the
\* frame's elements in order followed by (0,0) up to new_len elements, so a
\* frame of new_len elements comes back unchanged; on a longer frame it
\* returns an error.  round_to_nearest_pow2 returns the frame padded in that
\* way to the smallest power of two that is at least its length.
C10_RoundTo ==
    /\ fftOp.name = "round_to" =>
          IF Len(fftPrev) <= fftOp.new_len
          THEN fftResult = "Ok" /\ IsPadded(fftPrev, frame, fftOp.new_len)
          ELSE fftResult = "Err"
    /\ fftOp.name = "round_to_nearest_pow2" =>
          /\ fftResult = "Ok"
          /\ \E n \in PowersOfTwo :
                /\ n >= Len(fftPrev)
                /\ \A m \in PowersOfTwo : m >= Len(fftPrev) => n <= m
                /\ IsPadded(fftPrev, frame, n)

\* round_to padded a frame of 5 non-zero elements to 9 elements
C10_Witness ==
    /\ fftOp.name = "round_to"
    /\ Len(fftPrev) = 5
    /\ fftOp.new_len = 9
    /\ fftResult = "Ok"
    /\ Len(frame) = 9
    /\ frame[5] # ComplexReal(F64Zero)
    /\ frame[9] = ComplexReal(F64Zero)

\* C11, as stated: round_to fails whenever the frame's length is greater than
\* or equal to new_len, a length equal to new_len included, and appends
\* zeros only when the frame is strictly shorter.
C11_FailsWhenNotShorter ==
    fftOp.name = "round_to" =>
        IF Len(fftPrev) >= fftOp.new_len
        THEN fftResult = "Err"
        ELSE fftResult = "Ok" /\ Len(frame) = fftOp.new_len

\* C11, amended: round_to fails exactly when the frame is strictly longer
\* than new_len; a frame of exactly new_len elements is returned as it is,
\* and the returned frame is longer than the given one only when that one was
\* strictly shorter than new_len.
C11_FailsOnlyWhenLonger ==
    fftOp.name = "round_to" =>
        /\ (fftResult = "Err" <=> Len(fftPrev) > fftOp.new_len)
        /\ (Len(fftPrev) = fftOp.new_len => fftResult = "Ok" /\ frame = fftPrev)
        /\ (Len(frame) > Len(fftPrev) => Len(fftPrev) < fftOp.new_len)

\* round_to was given a frame of 5 elements and new_len 5 and returned it
C11_Witness ==
    /\ fftOp.name = "round_to"
    /\ Len(fftPrev) = 5
    /\ fftOp.new_len = 5
    /\ fftResult = "Ok"
    /\ frame = fftPrev

----------------------------------------------------------------------------
(* Claims about the bit reversal *)

\* C12: at every width k and for every index i below 2^k, bitwise_reverse
\* of i is again below 2^k and bitwise_reverse of that is i;
\* bitwise_reverse_permute on a buffer of 2^k elements moves the element at
\* index i to index bitwise_reverse(i, k), and a second call restores the
\* buffer.
C12_Involution ==
    /\ revResult \in 0..(2 ^ revAt - 1)
    /\ (revCalls % 2 = 0 => revResult = revInput)
    /\ (revCalls % 2 = 1 => bitwise_reverse(revResult, revAt) = revInput)
    /\ Len(revBuf) = 2 ^ revAt
    /\ (revBufCalls % 2 = 1 =>
           \A i \in 0..(2 ^ revAt - 1) :
               revBuf[bitwise_reverse(i, revAt) + 1] = IndexFrame(2 ^ revAt)[i + 1])
    /\ (revBufCalls % 2 = 0 => revBuf = IndexFrame(2 ^ revAt))

\* index 3 of width 4 was reversed to 12 and back, and the buffer of 16
\* elements was permuted twice
C12_Witness ==
    /\ revAt = 4
    /\ revInput = 3
    /\ revCalls = 2
    /\ revResult = 3
    /\ revBufCalls = 2
    /\ revBuf = IndexFrame(16)

----------------------------------------------------------------------------
(* Claims about the round trip *)

\* 0.00002 as an f64
Epsilon == F64Of(1, <<10481, 9101, 2904, 1342>>, -68)

F64Abs(a) == [a EXCEPT !.sign = 1]

\* |a - b| <= Epsilon, the difference taken in f64
Near(a, b) == F64Le(F64Abs(F64Sub(a, b)), Epsilon)

\* every component of x is within Epsilon of that of y
NearFrames(x, y) ==
    /\ Len(x) = Len(y)
    /\ \A k \in 1..Len(x) :
          Near(x[k].real, y[k].real) /\ Near(x[k].imaginary, y[k].imaginary)

\* the forward transform does not divide: for 1 and 2 elements its result
\* is the buffer itself, and the sum and difference of the two elements
ForwardUnscaled ==
    rtStep = "forward" =>
        /\ (Len(rtOrigin) = 1 => rtBuf = rtOrigin)
        /\ (Len(rtOrigin) = 2 =>
               rtBuf = <<ComplexAdd(rtOrigin[1], rtOrigin[2]),
                         ComplexSub(rtOrigin[1], rtOrigin[2])>>)

\* C13, as stated: do_fft(x, false) then do_fft(x, true) on any buffer of a
\* power of two elements succeed and give back x within 0.00002 in every
\* component, and exactly for 1, 2 and 4 elements; only the inverse call
\* divides by the length.
C13_RoundTrip ==
    /\ ForwardUnscaled
    /\ rtStep = "inverse" =>
          /\ rtResults = <<"Ok", "Ok">>
          /\ NearFrames(rtBuf, rtOrigin)
          /\ (Len(rtOrigin) \in {1, 2, 4} => rtBuf = rtOrigin)

\* every component of x is at most 2^14 in magnitude
Moderate(x) ==
    \A k \in 1..Len(x) :
        /\ F64Le(F64Abs(x[k].real), F64Of(1, <<1>>, 14))
        /\ F64Le(F64Abs(x[k].imaginary), F64Of(1, <<1>>, 14))

\* C13, amended: the two calls succeed on any buffer of a power of two
\* elements and only the inverse call divides by the length; on a buffer
\* whose components are at most 2^14 in magnitude they give back x within
\* 0.00002 in every component, and exactly so for 1 and 2 integer-valued
\* elements.
C13_RoundTripModerate ==
    /\ ForwardUnscaled
    /\ rtStep = "inverse" =>
          /\ rtResults = <<"Ok", "Ok">>
          /\ (Moderate(rtOrigin) => NearFrames(rtBuf, rtOrigin))
          /\ (Moderate(rtOrigin) /\ Len(rtOrigin) \in {1, 2} => rtBuf = rtOrigin)
          /\ (Len(rtOrigin) = 1 => rtBuf = rtOrigin)

\* the round trip of fft_test::vec(8) came back within 0.00002 of the
\* buffer, and not equal to it
C13_Witness ==
    /\ rtStep = "inverse"
    /\ Len(rtOrigin) = 8
    /\ rtOrigin[1] = ComplexReal(F64FromInt(20))
    /\ NearFrames(rtBuf, rtOrigin)
    /\ rtBuf # rtOrigin

----------------------------------------------------------------------------
(* Claims about the Ui *)

\* the last n entries of the sequence q
LastEntries(q, n) == SubSeq(q, Len(q) - n + 1, Len(q))

\* C14: whatever the buffer's capacity sample_rate * seconds_to_record,
\* add_sample writes over the oldest entry and keeps the buffer's length,
\* and once sample_window entries were added, for a sample_window within
\* the capacity, frame(sample_window) returns the sample_window entries
\* added last, each once, in the order they were added.
C14_LatestWindow ==
    /\ \A k \in 1..Len(uiAdded) :
          k > Len(uiAdded) - Len(ui.samples) =>
              ui.samples[((k - 1) % Len(ui.samples)) + 1] = uiAdded[k]
    /\ ui.total_samples = Len(uiAdded)
    /\ (uiOp = "frame" /\ ui.sample_window <= Len(ui.samples)
           /\ ui.total_samples >= ui.sample_window) =>
          /\ ~uiFrame.panicked
          /\ uiFrame.frame = LastEntries(uiAdded, ui.sample_window)


\* the number of entries fft_frame returns: the zero point and the first
\* half of the bins
SpectrumLen == 1 + (FftPadLen \div 2)

C16_RedrawNeverPanics == ~uiDrawn.panicked

----------------------------------------------------------------------------
(* Claims about RealFft *)

\* C19: RealFft::new returns a RealFft for a sample_size that is a power of
\* two and for no other; run with data as long as the window or longer
\* returns an error and leaves buffer and result_buffer as they were; after
\* any calls of run, failed or not, buffer has sample_size entries and
\* result_buffer sample_size / 2, and the transform inside run never fails.
C19_WindowKept ==
    /\ (rfftCall.op = "new" /\ rfftCall.result # "none") =>
          (rfftCall.result = "Ok" <=> rfftCall.sample_size \in PowersOfTwo)
    /\ rfftCall.result \in {"Ok", "Err", "none"}
    /\ (rfftCall.op = "run" \/ rfftCall.result = "Ok") =>
          /\ rfftCall.sample_size \in PowersOfTwo
          /\ Len(rfft.buffer) = rfftCall.sample_size
          /\ Len(rfft.result_buffer) = rfftCall.sample_size \div 2
    /\ rfftCall.op = "run" =>
          IF Len(rfftCall.data) >= rfftCall.sample_size
          THEN rfftCall.result = "Err" /\ rfft = rfftCall.before
          ELSE rfftCall.result = "Ok"

\* a run on a window of 4 with 4 samples failed after an earlier run had
\* filled the buffers, and left them
C19_Witness ==
    /\ rfftCall.op = "run"
    /\ rfftRuns = 2
    /\ rfftCall.sample_size = 4
    /\ Len(rfftCall.data) = 4
    /\ rfftCall.result = "Err"
    /\ rfft = rfftCall.before
    /\ rfft.buffer # Zeros(4)

----------------------------------------------------------------------------
(* Claims about the waveforms *)

\* the phase fraction (clock * frequency / rate) mod 1 is below duty
PhaseBelowDuty(w, clock) ==
    PhaseNum(clock, w.frequency, w.rate, 1) * AUnit < w.duty * w.rate * TUnit

\* C20: for every clock and every duty from 0 to 1, next of a Square returns
\* +1 when the phase fraction is below duty and -1 otherwise, and never a
\* value other than +1 and -1.
C20_HighBelowDuty ==
    smpClock >= 0 =>
        /\ smpRet = IF PhaseBelowDuty(smp, smpClock) THEN AUnit ELSE -AUnit
        /\ smpRet \in {AUnit, -AUnit}

----------------------------------------------------------------------------
(* Claims about the retirement of voices *)

\* C21: every envelope with finite durations that are not negative and a
\* positive sample rate is Finished after finitely many calls of next.
C21_EveryEnvelopeFinishes == <>(longEnv.current_state = "Finished")

====
